---- MODULE Spec2Model ----
(***************************************************************************)
(* Model of the ingestion pipeline of PoliPost-Tracker-Dashboard:          *)
(*   database.py     insert_article, insert_many_articles, log_fetch       *)
(*   data_fetcher.py _parse_date, fetch_rss, fetch_newsapi, fetch_all      *)
(*   app.py          api_fetch, _scheduled_fetch, start_scheduler, main    *)
(*                                                                         *)
(* The SQLite file is the shared state (tables articles and fetch_logs).   *)
(* Every statement that is committed on its own connection is one atomic   *)
(* step; threads interleave between those steps.                           *)
(*                                                                         *)
(* Abstractions.  A row keeps the columns the pipeline's behaviour depends *)
(* on (url, title, platform, keyword, published_at, fetched_at); the       *)
(* columns description, source_name, author and fetch_logs.message are     *)
(* copied through by the code and are left out.  The scheduler's period   *)
(* is an untimed, bounded choice of when a run becomes due.  Text columns  *)
(* always hold text.  Only SpecTimed measures time.sleep against the       *)
(* clock; elsewhere the length of the delay is left open.                  *)
(***************************************************************************)
EXTENDS Integers, Sequences, FiniteSets, TLC

VARIABLES
    articles,     \* table articles, in id order (id = position)
    fetch_logs,   \* table fetch_logs, in id order
    now,          \* wall clock (datetime.utcnow), in abstract units
    cfg,          \* configuration of the process: keywords, platforms, NEWSAPI_KEY
    pc,           \* per thread: position in the code
    origin,       \* per thread: what started it
    ki,           \* per thread: index of fetch_all's current keyword
    pi,           \* per thread: index of fetch_all's current platform
    arts,         \* per thread: the batch handed to insert_many_articles
    idx,          \* per thread: insert_many_articles' loop position
    inserted,     \* per thread: insert_many_articles' accumulator
    total,        \* per thread: fetch_all's per-keyword accumulator
    summary,      \* per thread: fetch_all's summary dict
    pending,      \* per thread: the fetch_logs row fetch_rss is about to write
    faults,       \* storage faults raised so far
    hist          \* history (not program state): what each call did and when

vars == <<articles, fetch_logs, now, cfg, pc, origin, ki, pi, arts, idx,
          inserted, total, summary, pending, faults, hist>>

runVars == <<ki, pi, total, summary, pending>>

(***************************************************************************)
(* Bounds of the model.                                                    *)
(***************************************************************************)
MaxCallers == 2      \* threads calling insert_many_articles directly
MaxKeywords == 1     \* keywords of a run
MaxFeed == 2         \* entries in the longest response of a source
MaxLong == 3         \* entries in the longest response of the end-to-end runs
MaxManual == 1       \* POST /api/fetch requests in one behaviour
MaxDue == 1          \* times the 6-hour job comes due in one behaviour
MaxClock == 2        \* last instant of the clock
MaxFaults == 1       \* storage faults injected in one behaviour
MaxBatch == 1        \* entries in the longest response of the overlapping runs

(***************************************************************************)
(* Values.                                                                 *)
(***************************************************************************)
\* time.sleep(0.5), data_fetcher.py line 178: the clock counts in units of
\* that delay.
Interval == 1

Urls == {"", "u1", "u2"}          \* "" is what an entry without a link gets

\* published_at is TEXT: an ISO-8601 timestamp (instant t), the empty string,
\* or any other string.
Iso(t) == [kind |-> "iso", t |-> t]
RawText == [kind |-> "raw", t |-> 0]
EmptyText == [kind |-> "empty", t |-> 0]

Range(s) == {s[i] : i \in 1..Len(s)}

SeqsUpTo(S, n) == UNION {[1..m -> S] : m \in 0..n}

(***************************************************************************)
(* database.py                                                             *)
(***************************************************************************)
\* The row INSERT builds from an article dict: id AUTOINCREMENT, fetched_at
\* DEFAULT datetime('now').
NewRow(rows, a, t) ==
    [id |-> Len(rows) + 1, title |-> a.title, url |-> a.url,
     platform |-> a.platform, keyword |-> a.keyword,
     published_at |-> a.published_at, fetched_at |-> t]

\* A plain INSERT, as if url were not UNIQUE.
InsertPlain(rows, a, t) == Append(rows, NewRow(rows, a, t))

\* INSERT OR REPLACE: the row holding the url is deleted and the new one is
\* appended.
InsertOrReplace(rows, a, t) ==
    Append(SelectSeq(rows, LAMBDA r : r.url # a.url), NewRow(rows, a, t))

\* An INSERT OR IGNORE for which the empty url is no value, the way UNIQUE
\* treats NULL: a record without a url always gets a row.
InsertOrIgnoreUrl(rows, a, t) ==
    IF a.url # "" /\ \E i \in 1..Len(rows) : rows[i].url = a.url
    THEN rows
    ELSE Append(rows, NewRow(rows, a, t))

\* INSERT OR IGNORE INTO articles: the row is skipped when url is taken.
InsertOrIgnore(rows, a, t) ==
    IF \E i \in 1..Len(rows) : rows[i].url = a.url
    THEN rows
    ELSE Append(rows, NewRow(rows, a, t))

\* A rowcount that reports the statement, not the rows it changed.
RowCountOfStatement(rows, rows2) == 1

\* cursor.rowcount of that statement: rows it inserted.
RowCount(rows, rows2) == Len(rows2) - Len(rows)


Threads == DOMAIN pc

\* insert_article, line 64-79: execute and commit succeed.
InsertArticle(t) ==
    /\ pc[t] = "insert"
    /\ idx[t] <= Len(arts[t])
    /\ LET rows2 == InsertOrIgnore(articles, arts[t][idx[t]], now)
           n == RowCount(articles, rows2)
       IN /\ articles' = rows2
          /\ inserted' = [inserted EXCEPT ![t] = @ + n]
          /\ hist' = [hist EXCEPT !.rowBy = IF n = 1 THEN Append(@, t) ELSE @]
    /\ idx' = [idx EXCEPT ![t] = @ + 1]
    /\ UNCHANGED <<fetch_logs, now, cfg, pc, origin, arts, faults>>
    /\ UNCHANGED runVars

\* A persist that shares one transaction with the attempt's ledger entry:
\* the failure rolls the entry back.
InsertArticleFaultRollback(t) ==
    /\ pc[t] = "insert"
    /\ idx[t] <= Len(arts[t])
    /\ faults < MaxFaults
    /\ faults' = faults + 1
    /\ pc' = [pc EXCEPT ![t] = "raised"]
    /\ hist' = [hist EXCEPT !.faultIn = [@ EXCEPT ![t] = "persist"]]
    /\ fetch_logs' = SubSeq(fetch_logs, 1, Len(fetch_logs) - 1)
    /\ UNCHANGED <<articles, now, cfg, origin, arts, idx, inserted>>
    /\ UNCHANGED runVars

\* An insert_many_articles that commits the batch as one transaction: the
\* failure rolls back the rows the batch had inserted.
InsertArticleFaultBatch(t) ==
    /\ pc[t] = "insert"
    /\ idx[t] <= Len(arts[t])
    /\ faults < MaxFaults
    /\ faults' = faults + 1
    /\ pc' = [pc EXCEPT ![t] = "raised"]
    /\ hist' = [hist EXCEPT !.faultIn = [@ EXCEPT ![t] = "persist"]]
    /\ articles' = SubSeq(articles, 1, Len(articles) - inserted[t])
    /\ UNCHANGED <<fetch_logs, now, cfg, origin, arts, idx, inserted>>
    /\ UNCHANGED runVars

\* insert_article, line 61-81: connect, execute or commit raises
\* (sqlite3.OperationalError); nothing is committed, the connection is closed
\* and the exception leaves insert_many_articles.
InsertArticleFault(t) ==
    /\ pc[t] = "insert"
    /\ idx[t] <= Len(arts[t])
    /\ faults < MaxFaults
    /\ faults' = faults + 1
    /\ pc' = [pc EXCEPT ![t] = "raised"]
    /\ hist' = [hist EXCEPT !.faultIn = [@ EXCEPT ![t] = "persist"]]
    /\ UNCHANGED <<articles, fetch_logs, now, cfg, origin, arts, idx, inserted>>
    /\ UNCHANGED runVars

(***************************************************************************)
(* A caller of insert_many_articles outside fetch_all (seed_demo.py, a     *)
(* test): persist(batch).                                                  *)
(***************************************************************************)
Article(title, url, platform, keyword, published) ==
    [title |-> title, url |-> url, platform |-> platform,
     keyword |-> keyword, published_at |-> published]

DirectRecords == {Article(ti, u, "A", 1, Iso(0)) : ti \in {"T1", "T2"}, u \in Urls}

UrlsOf(s) == {s[i].url : i \in 1..Len(s)}
HasUrl(rows, u) == u \in UrlsOf(rows)

\* persist([r]): insert_many_articles([r]) is entered, line 86.
PersistCall(t, r) ==
    /\ origin[t] = "direct"
    /\ pc[t] = "idle"
    /\ pc' = [pc EXCEPT ![t] = "insert"]
    /\ arts' = [arts EXCEPT ![t] = <<r>>]
    /\ idx' = [idx EXCEPT ![t] = 1]
    /\ inserted' = [inserted EXCEPT ![t] = 0]
    /\ hist' = [hist EXCEPT
                  !.before = [@ EXCEPT ![t] = {c \in Threads : pc[c] = "returned"}]]
    /\ UNCHANGED <<articles, fetch_logs, now, cfg, origin, faults>>
    /\ UNCHANGED runVars

\* insert_many_articles returns inserted, line 89.
PersistReturn(t) ==
    /\ origin[t] = "direct"
    /\ pc[t] = "insert"
    /\ idx[t] > Len(arts[t])
    /\ pc' = [pc EXCEPT ![t] = "returned"]
    /\ UNCHANGED <<articles, fetch_logs, now, cfg, origin, arts, idx, inserted,
                   faults, hist>>
    /\ UNCHANGED runVars

\* The history kept for a set T of threads:
\*   rowBy[i]    the thread whose insert created row i of articles
\*   before[t]   the direct calls that had returned when t's call began
\*   start[t]    the instant t's run began
\*   faultIn[t]  where a storage fault ended t
\*   replies     what each POST /api/fetch answered, and whether a run was
\*               in flight when it was received
\*   due         the number of times the 6-hour job came due
\*   asleep[t]   the instant t's last time.sleep began
\*   lastReq[p]  the instant of the last request to source p, -1 before any
\*   close       the sources that got two consecutive requests less than
\*               Interval apart
\*   asked       the keywords NewsAPI was requested for, in order
\*   calls[t]    the (keyword, platform) pairs t's current run has called
\*               fetch_rss for, in order
NoHist(T) ==
    [rowBy |-> <<>>, before |-> [t \in T |-> {}], start |-> [t \in T |-> 0],
     faultIn |-> [t \in T |-> "none"], replies |-> <<>>, due |-> 0,
     asleep |-> [t \in T |-> 0], lastReq |-> [p \in {"A", "B"} |-> -1],
     close |-> {}, asked |-> <<>>, calls |-> [t \in T |-> <<>>]]

InitStore ==
    /\ articles = <<>>
    /\ fetch_logs = <<>>
    /\ now = 0
    /\ cfg = [keywords |-> <<>>, platforms |-> <<>>, newsapi_key |-> FALSE,
              world |-> <<>>]
    /\ pc = [t \in 1..MaxCallers |-> "idle"]
    /\ origin = [t \in 1..MaxCallers |-> "direct"]
    /\ ki = [t \in 1..MaxCallers |-> 0]
    /\ pi = [t \in 1..MaxCallers |-> 0]
    /\ arts = [t \in 1..MaxCallers |-> <<>>]
    /\ idx = [t \in 1..MaxCallers |-> 0]
    /\ inserted = [t \in 1..MaxCallers |-> 0]
    /\ total = [t \in 1..MaxCallers |-> 0]
    /\ summary = [t \in 1..MaxCallers |-> <<>>]
    /\ pending = [t \in 1..MaxCallers |-> <<>>]
    /\ faults = 0
    /\ hist = NoHist(1..MaxCallers)

NextStore ==
    \/ \E t \in Threads : \E r \in DirectRecords : PersistCall(t, r)
    \/ \E t \in Threads : InsertArticle(t)
    \/ \E t \in Threads : InsertArticleFault(t)
    \/ \E t \in Threads : PersistReturn(t)

SpecStore == InitStore /\ [][NextStore]_vars



(***************************************************************************)
(* data_fetcher.py                                                         *)
(***************************************************************************)
KeywordNames == <<"k1", "k2", "k3">>
PlatformNames == <<"A", "B">>

\* What a feed entry carries. published is the entry's date string:
\*   ""       no date at all
\*   "rfc"    an RFC 2822 date, of instant EntryInstant
\*   "bad"    a non-empty string parsedate_to_datetime rejects
\*   "struct" no string, but a published_parsed struct_time of EntryInstant
EntryInstant == 0
Entry(link, title, published) ==
    [link |-> link, title |-> title, published |-> published]

\* What the request of a source ends in: it raises (connection error,
\* timeout), or it returns a body feedparser finds these entries in.
Raise == [kind |-> "raise", entries |-> <<>>]
Feed(es) == [kind |-> "feed", entries |-> es]
\* requests.get returns a response with a non-2xx status like any other
\* (line 100 has no raise_for_status); feedparser parses its body.
HttpError(es) == [kind |-> "status", entries |-> es]
Feeds(E, n) == {Feed(es) : es \in SeqsUpTo(E, n)}
Responses(E, n) == {Raise} \cup Feeds(E, n)

\* _clean, line 82-84: tags are removed, then surrounding blanks.
Clean(text) ==
    CASE text = "<b>T1</b>" -> "T1"
      [] text = "<p> </p>" -> ""
      [] OTHER -> text

\* fetch_rss, line 103-108: pub_raw of an entry.
PubRaw(e) ==
    IF e.published = "struct" THEN Iso(EntryInstant)
    ELSE IF e.published = "" THEN EmptyText
    ELSE IF e.published = "rfc" THEN [kind |-> "rfc", t |-> EntryInstant]
    ELSE RawText

\* _parse_date, line 68-79: utcnow for no string, the parsed date for an
\* RFC 2822 string, and the string itself when parsing raises.
ParseDate(raw, t) ==
    IF raw.kind = "empty" THEN Iso(t)
    ELSE IF raw.kind = "rfc" THEN Iso(raw.t)
    ELSE raw

\* fetch_rss, line 110-119: the article dict of one entry.
RssArticle(e, platform, keyword, t) ==
    Article(Clean(e.title), e.link, platform, keyword, ParseDate(PubRaw(e), t))

\* fetch_newsapi, line 143-152: the article dict of one item; title and
\* publishedAt are taken as they come.
NewsapiArticle(e, keyword) ==
    Article(e.title, e.link, "NewsAPI", keyword,
            IF e.published = "" THEN EmptyText
            ELSE IF e.published = "bad" THEN RawText ELSE Iso(EntryInstant))

\* A fetch_logs row, log_fetch line 94-97.
LogRow(platform, keyword, status, count) ==
    [platform |-> platform, keyword |-> keyword, status |-> status, count |-> count]

NumKeywords == Len(cfg.keywords)
NumPlatforms == Len(cfg.platforms)
Keyword(t) == cfg.keywords[ki[t]]
Platform(t) == cfg.platforms[pi[t]]

\* The history after a request to source p at instant t.
Requested(h, p, t) ==
    [h EXCEPT !.lastReq = [@ EXCEPT ![p] = t],
              !.close = IF h.lastReq[p] >= 0 /\ t - h.lastReq[p] < Interval
                        THEN @ \cup {p} ELSE @]

\* The history after thread c has called fetch_rss for its current pair.
Invoked(h, c) ==
    [h EXCEPT !.calls = [@ EXCEPT ![c] = Append(@, <<Keyword(c), Platform(c)>>)]]

\* A fetch_rss without the try: a failed request leaves it as an exception.
FetchRssUncaught(t, resp) ==
    /\ pc[t] = "rss"
    /\ arts' = [arts EXCEPT ![t] =
          [i \in 1..Len(resp.entries) |->
              RssArticle(resp.entries[i], Platform(t), Keyword(t), now)]]
    /\ pending' = [pending EXCEPT ![t] =
          LogRow(Platform(t), Keyword(t), "ok", Len(resp.entries))]
    /\ pc' = [pc EXCEPT ![t] = IF resp.kind = "raise" THEN "raised" ELSE "log"]
    /\ hist' = Invoked(Requested(hist, Platform(t), now), t)
    /\ UNCHANGED <<articles, fetch_logs, now, cfg, origin, ki, pi, idx, inserted,
                   total, summary, faults>>

\* fetch_rss, line 97-119 and the first half of 120-125: the request and the
\* parse loop, up to the call of log_fetch.
FetchRss(t, resp) ==
    /\ pc[t] = "rss"
    /\ arts' = [arts EXCEPT ![t] =
          [i \in 1..Len(resp.entries) |->
              RssArticle(resp.entries[i], Platform(t), Keyword(t), now)]]
    /\ pending' = [pending EXCEPT ![t] =
          IF resp.kind = "raise"
          THEN LogRow(Platform(t), Keyword(t), "error", 0)
          ELSE LogRow(Platform(t), Keyword(t), "ok", Len(resp.entries))]
    /\ pc' = [pc EXCEPT ![t] = "log"]
    /\ hist' = Invoked(Requested(hist, Platform(t), now), t)
    /\ UNCHANGED <<articles, fetch_logs, now, cfg, origin, ki, pi, idx, inserted,
                   total, summary, faults>>

\* log_fetch, line 92-99, as fetch_rss calls it (line 121 or 125), then
\* fetch_rss returns and fetch_all enters insert_many_articles (line 177).
LogFetch(t) ==
    /\ pc[t] = "log"
    /\ fetch_logs' = Append(fetch_logs, pending[t])
    /\ pc' = [pc EXCEPT ![t] = "insert"]
    /\ idx' = [idx EXCEPT ![t] = 1]
    /\ inserted' = [inserted EXCEPT ![t] = 0]
    /\ UNCHANGED <<articles, now, cfg, origin, ki, pi, arts, total, summary,
                   pending, faults, hist>>

\* log_fetch raises (connect, execute or commit): on line 121 the exception
\* leaves the handler, on line 125 it is outside the try; either way it
\* leaves fetch_rss and fetch_all.
LogFetchFault(t) ==
    /\ pc[t] = "log"
    /\ faults < MaxFaults
    /\ faults' = faults + 1
    /\ pc' = [pc EXCEPT ![t] = "raised"]
    /\ hist' = [hist EXCEPT !.faultIn = [@ EXCEPT ![t] = "log"]]
    /\ UNCHANGED <<articles, fetch_logs, now, cfg, origin, ki, pi, arts, idx,
                   inserted, total, summary, pending>>

\* A fetch_all that assigns total instead of adding to it.
RssPersistedOverwrite(t) ==
    /\ origin[t] # "direct"
    /\ pc[t] = "insert"
    /\ idx[t] > Len(arts[t])
    /\ pi[t] <= NumPlatforms
    /\ total' = [total EXCEPT ![t] = inserted[t]]
    /\ pc' = [pc EXCEPT ![t] = "sleep"]
    /\ arts' = [arts EXCEPT ![t] = <<>>]
    /\ idx' = [idx EXCEPT ![t] = 0]
    /\ inserted' = [inserted EXCEPT ![t] = 0]
    /\ pending' = [pending EXCEPT ![t] = <<>>]
    /\ hist' = [hist EXCEPT !.asleep = [@ EXCEPT ![t] = now]]
    /\ UNCHANGED <<articles, fetch_logs, now, cfg, origin, ki, pi, summary,
                   faults>>

\* A fetch_all whose total is one counter of the module, shared by the runs.
RssPersistedShared(t) ==
    /\ origin[t] # "direct"
    /\ pc[t] = "insert"
    /\ idx[t] > Len(arts[t])
    /\ pi[t] <= NumPlatforms
    /\ total' = [x \in DOMAIN total |-> total[x] + inserted[t]]
    /\ pc' = [pc EXCEPT ![t] = "sleep"]
    /\ arts' = [arts EXCEPT ![t] = <<>>]
    /\ idx' = [idx EXCEPT ![t] = 0]
    /\ inserted' = [inserted EXCEPT ![t] = 0]
    /\ pending' = [pending EXCEPT ![t] = <<>>]
    /\ hist' = [hist EXCEPT !.asleep = [@ EXCEPT ![t] = now]]
    /\ UNCHANGED <<articles, fetch_logs, now, cfg, origin, ki, pi, summary,
                   faults>>

\* fetch_all, line 177: insert_many_articles returned, total += its count;
\* arts is rebound by the next fetch_rss. time.sleep(0.5) begins.
RssPersisted(t) ==
    /\ origin[t] # "direct"
    /\ pc[t] = "insert"
    /\ idx[t] > Len(arts[t])
    /\ pi[t] <= NumPlatforms
    /\ total' = [total EXCEPT ![t] = @ + inserted[t]]
    /\ pc' = [pc EXCEPT ![t] = "sleep"]
    /\ arts' = [arts EXCEPT ![t] = <<>>]
    /\ idx' = [idx EXCEPT ![t] = 0]
    /\ inserted' = [inserted EXCEPT ![t] = 0]
    /\ pending' = [pending EXCEPT ![t] = <<>>]
    /\ hist' = [hist EXCEPT !.asleep = [@ EXCEPT ![t] = now]]
    /\ UNCHANGED <<articles, fetch_logs, now, cfg, origin, ki, pi, summary,
                   faults>>

\* fetch_all, line 178 and the loop head 175: time.sleep(0.5) returns, then
\* the next platform, or NewsAPI after the last one. How long the sleep took
\* is left open.
Sleep(t) ==
    /\ pc[t] = "sleep"
    /\ pi' = [pi EXCEPT ![t] = @ + 1]
    /\ pc' = [pc EXCEPT ![t] = IF pi[t] < NumPlatforms THEN "rss" ELSE "newsapi"]
    /\ UNCHANGED <<articles, fetch_logs, now, cfg, origin, ki, arts, idx,
                   inserted, total, summary, pending, faults, hist>>

\* The same where the clock runs: time.sleep(0.5) returns when Interval
\* has passed since it began.
SleepElapsed(t) ==
    /\ now >= hist.asleep[t] + Interval
    /\ Sleep(t)

\* fetch_all, line 184 and the loop head 173-174: summary[keyword] = total,
\* and the next keyword begins or the summary is returned (line 187).
KeywordDone(t, n) ==
    /\ summary' = [summary EXCEPT ![t] = (Keyword(t) :> (total[t] + n)) @@ @]
    /\ total' = [total EXCEPT ![t] = 0]
    /\ ki' = [ki EXCEPT ![t] = @ + 1]
    /\ pi' = [pi EXCEPT ![t] = 1]
    /\ pc' = [pc EXCEPT ![t] = IF ki[t] < NumKeywords THEN "rss" ELSE "done"]

\* A fetch_newsapi that treats the missing key as a failed attempt and
\* logs it.
SkipNewsapiLogged(t) ==
    /\ pc[t] = "newsapi"
    /\ ~cfg.newsapi_key
    /\ KeywordDone(t, 0)
    /\ fetch_logs' = Append(fetch_logs, LogRow("NewsAPI", Keyword(t), "error", 0))
    /\ UNCHANGED <<articles, now, cfg, origin, arts, idx, inserted,
                   pending, faults, hist>>

\* fetch_newsapi, line 132-133: no NEWSAPI_KEY, return []; then line 182,
\* insert_many_articles([]) returns 0 without touching the database.
SkipNewsapi(t) ==
    /\ pc[t] = "newsapi"
    /\ ~cfg.newsapi_key
    /\ KeywordDone(t, 0)
    /\ UNCHANGED <<articles, fetch_logs, now, cfg, origin, arts, idx, inserted,
                   pending, faults, hist>>

\* fetch_newsapi, line 134-155: the request; an exception is printed and the
\* list is returned; log_fetch is not called.
FetchNewsapi(t, resp) ==
    /\ pc[t] = "newsapi"
    /\ cfg.newsapi_key
    /\ arts' = [arts EXCEPT ![t] =
          [i \in 1..Len(resp.entries) |-> NewsapiArticle(resp.entries[i], Keyword(t))]]
    /\ pc' = [pc EXCEPT ![t] = "insert"]
    /\ idx' = [idx EXCEPT ![t] = 1]
    /\ inserted' = [inserted EXCEPT ![t] = 0]
    /\ hist' = [hist EXCEPT !.asked = Append(@, Keyword(t))]
    /\ UNCHANGED <<articles, fetch_logs, now, cfg, origin, ki, pi, total,
                   summary, pending, faults>>

\* fetch_all, line 182: the NewsAPI batch is persisted.
NewsapiPersisted(t) ==
    /\ origin[t] # "direct"
    /\ pc[t] = "insert"
    /\ idx[t] > Len(arts[t])
    /\ pi[t] > NumPlatforms
    /\ KeywordDone(t, inserted[t])
    /\ arts' = [arts EXCEPT ![t] = <<>>]
    /\ idx' = [idx EXCEPT ![t] = 0]
    /\ inserted' = [inserted EXCEPT ![t] = 0]
    /\ UNCHANGED <<articles, fetch_logs, now, cfg, origin, pending, faults, hist>>

\* The clock advances; instants from MaxClock on are not told apart.
Tick ==
    /\ now < MaxClock
    /\ now' = now + 1
    /\ UNCHANGED <<articles, fetch_logs, cfg, pc, origin, ki, pi, arts, idx,
                   inserted, total, summary, pending, faults, hist>>

(***************************************************************************)
(* One call fetch_all(keywords, platforms), alone on the database.         *)
(* cfg.world[p] is the set of responses source p can give in this run: any *)
(* response, only failed requests, only feeds, or only what a source that  *)
(* is down answers.                                                        *)
(***************************************************************************)
RunEntries == {Entry("u1", "T1", "rfc"), Entry("u2", "T1", "rfc")}
NewsEntries == {Entry("u1", "T2", "rfc"), Entry("u3", "T2", "rfc")}

\* A source that is down: the connection fails, or an error page comes back.
Unavailable == {Raise, HttpError(<<>>)}

Worlds(E, n) == {Responses(E, n), {Raise}, Feeds(E, n), Unavailable}

OneThread(t, w) ==
    /\ articles = <<>>
    /\ fetch_logs = <<>>
    /\ pc = [x \in {t} |-> "rss"]
    /\ origin = [x \in {t} |-> "call"]
    /\ ki = [x \in {t} |-> 1]
    /\ pi = [x \in {t} |-> 1]
    /\ arts = [x \in {t} |-> <<>>]
    /\ idx = [x \in {t} |-> 0]
    /\ inserted = [x \in {t} |-> 0]
    /\ total = [x \in {t} |-> 0]
    /\ summary = [x \in {t} |-> <<>>]
    /\ pending = [x \in {t} |-> <<>>]
    /\ faults = 0
    /\ hist = [NoHist({t}) EXCEPT !.start = [x \in {t} |-> w]]

InitRun ==
    /\ now = 0
    /\ \E k \in 1..MaxKeywords, key \in BOOLEAN,
          wa \in Worlds(RunEntries, MaxFeed), wb \in Worlds(RunEntries, MaxFeed) :
          cfg = [keywords |-> SubSeq(KeywordNames, 1, k),
                 platforms |-> PlatformNames, newsapi_key |-> key,
                 world |-> [p \in {"A", "B", "NewsAPI"} |->
                              IF p = "A" THEN wa
                              ELSE IF p = "B" THEN wb
                              ELSE Responses(NewsEntries, 1)]]
    /\ OneThread(1, now)

NextRun ==
    \/ \E t \in Threads :
          pc[t] = "rss" /\ \E resp \in cfg.world[Platform(t)] : FetchRss(t, resp)
    \/ \E t \in Threads : LogFetch(t)
    \/ \E t \in Threads : LogFetchFault(t)
    \/ \E t \in Threads : InsertArticle(t)
    \/ \E t \in Threads : InsertArticleFault(t)
    \/ \E t \in Threads : RssPersisted(t)
    \/ \E t \in Threads : Sleep(t)
    \/ \E t \in Threads : SkipNewsapi(t)
    \/ \E t \in Threads : \E resp \in cfg.world["NewsAPI"] : FetchNewsapi(t, resp)
    \/ \E t \in Threads : NewsapiPersisted(t)

SpecRun == InitRun /\ [][NextRun]_vars

(***************************************************************************)
(* End-to-end runs: one keyword, sources A and B, each answering with one  *)
(* fixed feed, no NEWSAPI_KEY, an empty database.                          *)
(***************************************************************************)
LongEntries == {Entry(u, "T1", "rfc") : u \in {"u1", "u2", "u3", "u4"}}

InitE2E ==
    /\ now = 0
    /\ \E x \in SeqsUpTo(LongEntries, MaxLong), y \in SeqsUpTo(LongEntries, MaxFeed) :
          cfg = [keywords |-> <<"k1">>, platforms |-> PlatformNames,
                 newsapi_key |-> FALSE,
                 world |-> [p \in {"A", "B"} |->
                              IF p = "A" THEN {Feed(x)} ELSE {Feed(y)}]]
    /\ OneThread(1, now)

NextE2E ==
    \/ \E t \in Threads :
          pc[t] = "rss" /\ \E resp \in cfg.world[Platform(t)] : FetchRss(t, resp)
    \/ \E t \in Threads : LogFetch(t)
    \/ \E t \in Threads : InsertArticle(t)
    \/ \E t \in Threads : RssPersisted(t)
    \/ \E t \in Threads : Sleep(t)
    \/ \E t \in Threads : SkipNewsapi(t)

SpecE2E == InitE2E /\ [][NextE2E]_vars

(***************************************************************************)
(* Runs over one keyword and one source whose entries differ in their date *)
(* and title, with the clock running. The run begins at instant 1, after   *)
(* EntryInstant.                                                           *)
(***************************************************************************)
DateEntries ==
    {Entry("u1", "T1", "rfc"), Entry("u2", "<b>T1</b>", "bad"),
     Entry("u3", "<p> </p>", ""), Entry("", "T2", "struct"),
     Entry("u4", "", "rfc")}

InitDates ==
    /\ now = 1
    /\ cfg = [keywords |-> <<"k1">>, platforms |-> <<"A">>, newsapi_key |-> FALSE,
              world |-> [p \in {"A"} |-> Responses(DateEntries, MaxFeed)]]
    /\ OneThread(1, now)

NextDates ==
    \/ Tick
    \/ \E t \in Threads :
          pc[t] = "rss" /\ \E resp \in cfg.world[Platform(t)] : FetchRss(t, resp)
    \/ \E t \in Threads : LogFetch(t)
    \/ \E t \in Threads : InsertArticle(t)
    \/ \E t \in Threads : RssPersisted(t)
    \/ \E t \in Threads : Sleep(t)
    \/ \E t \in Threads : SkipNewsapi(t)

SpecDates == InitDates /\ [][NextDates]_vars

(***************************************************************************)
(* Two calls of fetch_all in flight on one database, as two threads of one *)
(* process make them: two keywords, one source whose feed changes between  *)
(* requests, no NEWSAPI_KEY. The entries sight url u1 twice, with another  *)
(* title and date.                                                         *)
(***************************************************************************)
OverlapEntries ==
    {Entry("u1", "T1", "rfc"), Entry("u1", "T2", "bad"), Entry("u2", "T1", "rfc")}

OverlapThreads == {1, 2}

InitOverlap ==
    /\ articles = <<>>
    /\ fetch_logs = <<>>
    /\ now = 0
    /\ cfg = [keywords |-> <<"k1", "k2">>, platforms |-> <<"A">>,
              newsapi_key |-> FALSE,
              world |-> [p \in {"A"} |-> Feeds(OverlapEntries, MaxBatch)]]
    /\ pc = [t \in OverlapThreads |-> "rss"]
    /\ origin = [t \in OverlapThreads |-> "call"]
    /\ ki = [t \in OverlapThreads |-> 1]
    /\ pi = [t \in OverlapThreads |-> 1]
    /\ arts = [t \in OverlapThreads |-> <<>>]
    /\ idx = [t \in OverlapThreads |-> 0]
    /\ inserted = [t \in OverlapThreads |-> 0]
    /\ total = [t \in OverlapThreads |-> 0]
    /\ summary = [t \in OverlapThreads |-> <<>>]
    /\ pending = [t \in OverlapThreads |-> <<>>]
    /\ faults = 0
    /\ hist = NoHist(OverlapThreads)

NextOverlap ==
    \/ \E t \in Threads :
          pc[t] = "rss" /\ \E resp \in cfg.world[Platform(t)] : FetchRss(t, resp)
    \/ \E t \in Threads : LogFetch(t)
    \/ \E t \in Threads : InsertArticle(t)
    \/ \E t \in Threads : RssPersisted(t)
    \/ \E t \in Threads : Sleep(t)
    \/ \E t \in Threads : SkipNewsapi(t)

SpecOverlap == InitOverlap /\ [][NextOverlap]_vars

(***************************************************************************)
(* Two calls of fetch_all in flight with the clock running: one keyword,   *)
(* sources A and B, no NEWSAPI_KEY. A request and the statements on the    *)
(* database take any time, time.sleep(0.5) takes Interval.                 *)
(***************************************************************************)
TimedEntries == {Entry("u1", "T1", "rfc")}

InitTimed ==
    /\ articles = <<>>
    /\ fetch_logs = <<>>
    /\ now = 0
    /\ cfg = [keywords |-> <<"k1">>, platforms |-> PlatformNames,
              newsapi_key |-> FALSE,
              world |-> [p \in {"A", "B"} |-> Responses(TimedEntries, 1)]]
    /\ pc = [t \in OverlapThreads |-> "rss"]
    /\ origin = [t \in OverlapThreads |-> "call"]
    /\ ki = [t \in OverlapThreads |-> 1]
    /\ pi = [t \in OverlapThreads |-> 1]
    /\ arts = [t \in OverlapThreads |-> <<>>]
    /\ idx = [t \in OverlapThreads |-> 0]
    /\ inserted = [t \in OverlapThreads |-> 0]
    /\ total = [t \in OverlapThreads |-> 0]
    /\ summary = [t \in OverlapThreads |-> <<>>]
    /\ pending = [t \in OverlapThreads |-> <<>>]
    /\ faults = 0
    /\ hist = NoHist(OverlapThreads)

NextTimed ==
    \/ Tick
    \/ \E t \in Threads :
          pc[t] = "rss" /\ \E resp \in cfg.world[Platform(t)] : FetchRss(t, resp)
    \/ \E t \in Threads : LogFetch(t)
    \/ \E t \in Threads : InsertArticle(t)
    \/ \E t \in Threads : RssPersisted(t)
    \/ \E t \in Threads : SleepElapsed(t)
    \/ \E t \in Threads : SkipNewsapi(t)

SpecTimed == InitTimed /\ [][NextTimed]_vars

(***************************************************************************)
(* app.py: the process after __main__ has run up to app.run. Thread 1 is   *)
(* the startup fetch (line 93-94), thread 2 the scheduler loop (line       *)
(* 76-82), the others are the threads POST /api/fetch starts (line 48-49). *)
(***************************************************************************)
StartupThread == 1
SchedulerThread == 2
ManualThreads == 3..(2 + MaxManual)

AppEntries == {Entry("u1", "T1", "rfc")}

\* A thread is executing fetch_all.
Running(t) == pc[t] \in {"rss", "log", "insert", "sleep", "newsapi"}
InFlight == {t \in Threads : Running(t)}

\* fetch_all is entered with the defaults, line 167-175.
EnterFetchAll(t) ==
    /\ pc' = [pc EXCEPT ![t] = "rss"]
    /\ ki' = [ki EXCEPT ![t] = 1]
    /\ pi' = [pi EXCEPT ![t] = 1]
    /\ total' = [total EXCEPT ![t] = 0]
    /\ summary' = [summary EXCEPT ![t] = <<>>]

\* The status api_fetch answers with, line 50.
ApiFetchStatus(busy) == "started"

\* api_fetch, line 44-50: a daemon thread running fetch_all is started and
\* the response is returned.
ApiFetch(t) ==
    /\ t \in ManualThreads
    /\ pc[t] = "idle"
    /\ \A m \in ManualThreads : m < t => pc[m] # "idle"
    /\ EnterFetchAll(t)
    /\ hist' = [hist EXCEPT !.replies = Append(@,
                   [status |-> ApiFetchStatus(InFlight # {}),
                    busy |-> InFlight # {}]),
                            !.calls = [@ EXCEPT ![t] = <<>>]]
    /\ UNCHANGED <<articles, fetch_logs, now, cfg, origin, arts, idx, inserted,
                   pending, faults>>

\* _run_scheduler, line 77-79, and _scheduled_fetch, line 67-69: the job is
\* due, run_pending calls it in the scheduler thread.
SchedulerDue ==
    /\ pc[SchedulerThread] = "wait"
    /\ hist.due < MaxDue
    /\ EnterFetchAll(SchedulerThread)
    /\ hist' = [hist EXCEPT !.due = @ + 1,
                            !.calls = [@ EXCEPT ![SchedulerThread] = <<>>]]
    /\ UNCHANGED <<articles, fetch_logs, now, cfg, origin, arts, idx, inserted,
                   pending, faults>>

\* _scheduled_fetch returns, line 70 (the summary is dropped), and the loop
\* sleeps again, line 79.
SchedulerDone ==
    /\ pc[SchedulerThread] = "done"
    /\ pc' = [pc EXCEPT ![SchedulerThread] = "wait"]
    /\ summary' = [summary EXCEPT ![SchedulerThread] = <<>>]
    /\ UNCHANGED <<articles, fetch_logs, now, cfg, origin, ki, pi, arts, idx,
                   inserted, total, pending, faults, hist>>

AppThreads == {StartupThread, SchedulerThread} \cup ManualThreads

Init ==
    /\ articles = <<>>
    /\ fetch_logs = <<>>
    /\ now = 0
    /\ cfg = [keywords |-> <<"k1">>, platforms |-> <<"A">>, newsapi_key |-> FALSE,
              world |-> [p \in {"A"} |-> {Raise} \cup
                                           {Feed(<<e>>) : e \in AppEntries}]]
    /\ pc = [t \in AppThreads |->
                IF t = StartupThread THEN "rss"
                ELSE IF t = SchedulerThread THEN "wait" ELSE "idle"]
    /\ origin = [t \in AppThreads |->
                IF t = StartupThread THEN "startup"
                ELSE IF t = SchedulerThread THEN "scheduler" ELSE "manual"]
    /\ ki = [t \in AppThreads |-> 1]
    /\ pi = [t \in AppThreads |-> 1]
    /\ arts = [t \in AppThreads |-> <<>>]
    /\ idx = [t \in AppThreads |-> 0]
    /\ inserted = [t \in AppThreads |-> 0]
    /\ total = [t \in AppThreads |-> 0]
    /\ summary = [t \in AppThreads |-> <<>>]
    /\ pending = [t \in AppThreads |-> <<>>]
    /\ faults = 0
    /\ hist = NoHist(AppThreads)

\* Storage faults are left to SpecRun; here the database answers.
Next ==
    \/ \E t \in Threads : ApiFetch(t)
    \/ SchedulerDue
    \/ SchedulerDone
    \/ \E t \in Threads :
          pc[t] = "rss" /\ \E resp \in cfg.world[Platform(t)] : FetchRss(t, resp)
    \/ \E t \in Threads : LogFetch(t)
    \/ \E t \in Threads : InsertArticle(t)
    \/ \E t \in Threads : RssPersisted(t)
    \/ \E t \in Threads : Sleep(t)
    \/ \E t \in Threads : SkipNewsapi(t)

Spec == Init /\ [][Next]_vars

(***************************************************************************)
(* Two calls of fetch_all one after the other (two periods of the          *)
(* scheduler, or python data_fetcher.py run twice), over two keywords and  *)
(* sources A and B whose feeds hold entries without a link, under          *)
(* different titles, and one entry with a link.                            *)
(***************************************************************************)
LinklessEntries ==
    {Entry("", "T1", "rfc"), Entry("", "T2", "rfc"), Entry("u1", "T1", "rfc")}

\* The feeds a request can return: nothing, one entry, or two entries
\* without a link.
LinklessFeeds ==
    Feeds(LinklessEntries, 1)
        \cup {Feed(<<Entry("", "T1", "rfc"), Entry("", "T2", "rfc")>>)}

\* fetch_all is called when no run is in flight; the calls are numbered in
\* their order.
CallFetchAll(t) ==
    /\ pc[t] = "idle"
    /\ InFlight = {}
    /\ \A m \in Threads : m < t => pc[m] # "idle"
    /\ EnterFetchAll(t)
    /\ hist' = [hist EXCEPT !.calls = [@ EXCEPT ![t] = <<>>]]
    /\ UNCHANGED <<articles, fetch_logs, now, cfg, origin, arts, idx, inserted,
                   pending, faults>>

InitLinkless ==
    /\ articles = <<>>
    /\ fetch_logs = <<>>
    /\ now = 0
    /\ cfg = [keywords |-> <<"k1", "k2">>, platforms |-> PlatformNames,
              newsapi_key |-> FALSE,
              world |-> [p \in {"A", "B"} |-> LinklessFeeds]]
    /\ pc = [t \in OverlapThreads |-> "idle"]
    /\ origin = [t \in OverlapThreads |-> "call"]
    /\ ki = [t \in OverlapThreads |-> 1]
    /\ pi = [t \in OverlapThreads |-> 1]
    /\ arts = [t \in OverlapThreads |-> <<>>]
    /\ idx = [t \in OverlapThreads |-> 0]
    /\ inserted = [t \in OverlapThreads |-> 0]
    /\ total = [t \in OverlapThreads |-> 0]
    /\ summary = [t \in OverlapThreads |-> <<>>]
    /\ pending = [t \in OverlapThreads |-> <<>>]
    /\ faults = 0
    /\ hist = NoHist(OverlapThreads)

NextLinkless ==
    \/ \E t \in Threads : CallFetchAll(t)
    \/ \E t \in Threads :
          pc[t] = "rss" /\ \E resp \in cfg.world[Platform(t)] : FetchRss(t, resp)
    \/ \E t \in Threads : LogFetch(t)
    \/ \E t \in Threads : InsertArticle(t)
    \/ \E t \in Threads : RssPersisted(t)
    \/ \E t \in Threads : Sleep(t)
    \/ \E t \in Threads : SkipNewsapi(t)

SpecLinkless == InitLinkless /\ [][NextLinkless]_vars

(***************************************************************************)
(* Properties of persist (SpecStore).                                      *)
(***************************************************************************)
Started(c) == pc[c] # "idle"
Returned(c) == pc[c] = "returned"
UrlOfCall(c) == arts[c][1].url
RowsWithUrl(u) == {i \in 1..Len(articles) : articles[i].url = u}
CallsOn(u) == {c \in Threads : Started(c) /\ UrlOfCall(c) = u}
\* c and d ran concurrently: neither had returned when the other began.
Overlap(c, d) ==
    /\ c # d /\ Started(c) /\ Started(d)
    /\ c \notin hist.before[d] /\ d \notin hist.before[c]

\* C1: idempotent ingestion. Once persist([r]) has returned, the store holds
\* exactly one row with r.url; the call returned 1 when every other call on
\* that url began after it had returned (the url was new), and 0 when a call
\* on that url had returned before it began (the second call in sequence).
C1_IdempotentIngestion ==
    \A c \in Threads : Returned(c) =>
        /\ Cardinality(RowsWithUrl(UrlOfCall(c))) = 1
        /\ (\A d \in CallsOn(UrlOfCall(c)) \ {c} : c \in hist.before[d])
               => inserted[c] = 1
        /\ (\E d \in hist.before[c] : UrlOfCall(d) = UrlOfCall(c))
               => inserted[c] = 0

\* The same record persisted twice in sequence: 1 then 0.
C1_Witness ==
    \E c, d \in Threads :
        /\ Returned(c) /\ Returned(d) /\ c \in hist.before[d]
        /\ arts[c] = arts[d]
        /\ inserted[c] = 1 /\ inserted[d] = 0
        /\ Cardinality(RowsWithUrl(UrlOfCall(c))) = 1

\* C2: concurrent dedup. The new-counts of all calls on one url sum to at
\* most 1, and once every caller of that url has returned the store holds
\* exactly one row for it and all but one of the calls returned 0.
C2_ConcurrentDedup ==
    \A u \in Urls :
        /\ \A c \in CallsOn(u) : inserted[c] \in {0, 1}
        /\ Cardinality({c \in CallsOn(u) : inserted[c] = 1}) <= 1
        /\ (CallsOn(u) # {} /\ \A c \in CallsOn(u) : Returned(c)) =>
              /\ Cardinality(RowsWithUrl(u)) = 1
              /\ Cardinality({c \in CallsOn(u) : inserted[c] = 0})
                   = Cardinality(CallsOn(u)) - 1

\* Every caller persisted the same url, all of them concurrently.
C2_Witness ==
    \E u \in Urls :
        /\ CallsOn(u) = Threads
        /\ \A c \in Threads : Returned(c)
        /\ \A c, d \in Threads : c # d => Overlap(c, d)

(***************************************************************************)
(* Properties of the scheduler (Spec).                                     *)
(***************************************************************************)
\* C3: single flight. At most one execution of fetch_all is in flight.
C3_SingleFlight == Cardinality(InFlight) <= 1

\* C4: a manual trigger answers "already running" when a run is in flight
\* and "started" only when none is.
C4_AlreadyRunning ==
    \A i \in 1..Len(hist.replies) :
        hist.replies[i].status =
            IF hist.replies[i].busy THEN "already running" ELSE "started"

\* C18: startup ordering. The startup run is over before anything else can
\* start a run: while it is in flight, no run started by the periodic job or
\* by a manual trigger is in flight.
C18_StartupOrdering ==
    Running(StartupThread) =>
        /\ \A t \in Threads \ {StartupThread} : ~Running(t)

(***************************************************************************)
(* Properties of one run (SpecRun).                                        *)
(***************************************************************************)
LogRows(p, k, st) ==
    {i \in 1..Len(fetch_logs) :
        /\ fetch_logs[i].platform = p
        /\ fetch_logs[i].keyword = k
        /\ fetch_logs[i].status = st}
RowsOf(p, k) ==
    {i \in 1..Len(articles) : articles[i].platform = p /\ articles[i].keyword = k}
AlwaysFails(p) == cfg.world[p] = {Raise}
AlwaysSucceeds(p) == Raise \notin cfg.world[p]

\* C5: isolation. A failed request never ends the run, and in a completed
\* run over sources A and B without NewsAPI, where A always fails and B
\* always succeeds, the count returned for each keyword is the number of
\* rows stored from B for it, and the ledger holds, for each keyword, exactly
\* one entry for A, an error, and exactly one for B, an ok.
C5_Isolation ==
    \A t \in Threads :
        /\ pc[t] = "raised" => hist.faultIn[t] # "none"
        /\ (/\ pc[t] = "done" /\ ~cfg.newsapi_key
            /\ AlwaysFails("A") /\ AlwaysSucceeds("B")) =>
              /\ DOMAIN summary[t] = Range(cfg.keywords)
              /\ \A k \in Range(cfg.keywords) :
                    /\ summary[t][k] = Cardinality(RowsOf("B", k))
                    /\ Cardinality(LogRows("A", k, "error")) = 1
                    /\ Cardinality(LogRows("A", k, "ok")) = 0
                    /\ Cardinality(LogRows("B", k, "ok")) = 1
                    /\ Cardinality(LogRows("B", k, "error")) = 0
              /\ Len(fetch_logs) = NumPlatforms * NumKeywords

\* A failed, B stored something, and the run returned B's count.
C5_Witness ==
    /\ pc[1] = "done" /\ ~cfg.newsapi_key
    /\ AlwaysFails("A") /\ AlwaysSucceeds("B")
    /\ summary[1]["k1"] = Cardinality(RowsOf("B", "k1"))
    /\ summary[1]["k1"] >= 1
    /\ Cardinality(LogRows("A", "k1", "error")) = 1
    /\ Cardinality(LogRows("B", "k1", "ok")) = 1

\* C6: a storage fault raised by persist aborts only that pair's batch. When
\* the thread it hit has stopped, every (keyword, platform) pair has been
\* visited and the summary has an entry for every keyword.
C6_PersistFaultIsolated ==
    \A t \in Threads :
        (pc[t] = "raised" /\ hist.faultIn[t] = "persist") =>
            /\ Len(fetch_logs) = NumKeywords * NumPlatforms
            /\ DOMAIN summary[t] = Range(cfg.keywords)

\* C7: every adapter invocation appends exactly one ledger entry, so a
\* completed run with the secondary source enabled has appended K * (P + 1).
C7_OneEntryPerInvocation ==
    \A t \in Threads :
        (pc[t] = "done" /\ cfg.newsapi_key) =>
            Len(fetch_logs) = NumKeywords * (NumPlatforms + 1)

\* C8: the ledger never shows a success count that was not stored. While
\* the ok entry of the current attempt is visible (it was appended and the
\* attempt's batch is being persisted, or its persist raised), every url of
\* the attempt's batch is in the store.
C8_LedgerNeverAhead ==
    \A t \in Threads :
        (/\ pc[t] = "insert" \/ (pc[t] = "raised" /\ hist.faultIn[t] = "persist")
         /\ pi[t] <= NumPlatforms
         /\ pending[t] = LogRow(Platform(t), Keyword(t), "ok", Len(arts[t]))) =>
            \A u \in UrlsOf(arts[t]) : HasUrl(articles, u)

\* The rows stored from the platform sources for keyword k.
PlatformRows(k) ==
    {i \in 1..Len(articles) :
        articles[i].keyword = k /\ articles[i].platform \in Range(cfg.platforms)}

\* C17: a missing credential is not an error. Without NEWSAPI_KEY no request
\* goes to NewsAPI, no row and no ledger entry carries its name, no exception
\* ends the run at the NewsAPI step, and the count of every finished keyword
\* is the number of rows stored from the platform sources. With the key,
\* NewsAPI is requested once per keyword, in the order of the keywords.
C17_MissingCredential ==
    \A t \in Threads :
        /\ ~cfg.newsapi_key =>
              /\ hist.asked = <<>>
              /\ \A i \in 1..Len(articles) : articles[i].platform # "NewsAPI"
              /\ \A i \in 1..Len(fetch_logs) : fetch_logs[i].platform # "NewsAPI"
              /\ pc[t] = "raised" => pi[t] <= NumPlatforms
              /\ \A k \in DOMAIN summary[t] :
                    summary[t][k] = Cardinality(PlatformRows(k))
        /\ cfg.newsapi_key =>
              /\ Len(hist.asked) <= NumKeywords
              /\ hist.asked = SubSeq(cfg.keywords, 1, Len(hist.asked))
              /\ pc[t] = "done" => hist.asked = cfg.keywords

\* A run without the key has returned what it stored from A and B.
C17_Witness ==
    /\ ~cfg.newsapi_key
    /\ pc[1] = "done"
    /\ summary[1]["k1"] = 2
    /\ Cardinality(PlatformRows("k1")) = 2
    /\ Len(fetch_logs) = NumPlatforms * NumKeywords

\* C19: the ledger is append-only. No step changes or removes an entry of
\* fetch_logs, and when the persist of a platform attempt's batch has failed
\* the entry of that attempt is still the last one of the ledger.
C19_LedgerAppendOnly ==
    /\ [][/\ Len(fetch_logs') >= Len(fetch_logs)
          /\ \A i \in 1..Len(fetch_logs) : fetch_logs'[i] = fetch_logs[i]]_vars
    /\ [](\A t \in Threads :
            (/\ pc[t] = "raised" /\ hist.faultIn[t] = "persist"
             /\ pi[t] <= NumPlatforms) =>
                /\ Len(fetch_logs) >= 1
                /\ fetch_logs[Len(fetch_logs)] = pending[t])

\* The insert of B's batch raised after A's and B's entries were appended;
\* both are in the ledger.
C19_Witness ==
    /\ pc[1] = "raised" /\ hist.faultIn[1] = "persist"
    /\ pi[1] = 2
    /\ Len(fetch_logs) = 2
    /\ fetch_logs[2] = pending[1]
    /\ fetch_logs[2].status = "ok" /\ fetch_logs[2].count >= 1

\* C20: appendLog and persist fail independently. When log_fetch has failed
\* for an attempt, the batch of that attempt is persisted all the same; when
\* persist has failed for a platform attempt, the ledger holds the attempt's
\* entry.
C20_Independence ==
    \A t \in Threads :
        /\ (pc[t] = "raised" /\ hist.faultIn[t] = "log") =>
              \A u \in UrlsOf(arts[t]) : HasUrl(articles, u)
        /\ (pc[t] = "raised" /\ hist.faultIn[t] = "persist"
              /\ pi[t] <= NumPlatforms) =>
              \E i \in 1..Len(fetch_logs) : fetch_logs[i] = pending[t]

\* C21: the adapter never raises past its boundary. After a storage fault
\* in the log_fetch of fetch_rss, the run is still in flight or has returned:
\* it was not ended by the exception.
C21_AdapterBoundary ==
    \A t \in Threads :
        hist.faultIn[t] = "log" => (Running(t) \/ pc[t] = "done")

\* The (keyword, platform) pairs of a run, in the order of the loops.
Pairs ==
    [i \in 1..(NumKeywords * NumPlatforms) |->
        <<cfg.keywords[((i - 1) \div NumPlatforms) + 1],
          cfg.platforms[((i - 1) % NumPlatforms) + 1]>>]

\* C22: run coverage. A run that has ended has called fetch_rss exactly once
\* for each (keyword, platform) pair and holds a summary with exactly one
\* entry per keyword.
C22_RunCoverage ==
    \A t \in Threads :
        pc[t] \in {"done", "raised"} =>
            /\ hist.calls[t] = Pairs
            /\ DOMAIN summary[t] = Range(cfg.keywords)

\* The platform name the batch a run is persisting carries.
AttemptPlatform(t) == IF pi[t] <= NumPlatforms THEN Platform(t) ELSE "NewsAPI"

\* C23: per-record commit. When insert_article has raised at record i of a
\* batch, the records before i are stored, the rows the batch created are
\* as many as insert_many_articles had counted and all come from records
\* before i, and the caller never got that count: total is what the earlier
\* batches of the keyword gave and the keyword has no summary entry.
C23_PerRecordCommit ==
    \A t \in Threads :
        (pc[t] = "raised" /\ hist.faultIn[t] = "persist") =>
            LET i == idx[t]
                done == {arts[t][j].url : j \in 1..(i - 1)}
                rows == RowsOf(AttemptPlatform(t), Keyword(t))
                ofKeyword == {r \in 1..Len(articles) :
                                 articles[r].keyword = Keyword(t)}
            IN /\ i \in 1..Len(arts[t])
               /\ \A u \in done : HasUrl(articles, u)
               /\ Cardinality(rows) = inserted[t]
               /\ \A r \in rows : articles[r].url \in done
               /\ total[t] = Cardinality(ofKeyword \ rows)
               /\ Keyword(t) \notin DOMAIN summary[t]

\* The insert of the second record of B's batch raised after the first one
\* had been stored and counted.
C23_Witness ==
    /\ pc[1] = "raised" /\ hist.faultIn[1] = "persist"
    /\ pi[1] = 2 /\ Len(arts[1]) = 2 /\ idx[1] = 2
    /\ inserted[1] = 1
    /\ HasUrl(articles, arts[1][1].url)
    /\ ~HasUrl(articles, arts[1][2].url)
    /\ articles[Len(articles)].platform = "B"

SourceUnavailable(p) == \A r \in cfg.world[p] : r.kind # "feed"

\* C11: SourceUnavailable. A source whose every request ends in a network
\* error, a timeout or a non-2xx response contributes no row to the store,
\* every ledger entry of its pairs is an error with count 0, and a completed
\* run has appended exactly one such entry for each of its keywords.
C11_SourceUnavailable ==
    \A p \in Range(cfg.platforms) : SourceUnavailable(p) =>
        /\ \A k \in Range(cfg.keywords) : RowsOf(p, k) = {}
        /\ \A i \in 1..Len(fetch_logs) : fetch_logs[i].platform = p =>
              fetch_logs[i].status = "error" /\ fetch_logs[i].count = 0
        /\ \A t \in Threads : pc[t] = "done" =>
              \A k \in Range(cfg.keywords) :
                  Cardinality(LogRows(p, k, "error")) = 1

(***************************************************************************)
(* Properties of the dates (SpecDates).                                    *)
(***************************************************************************)
LinksDated(d) == {e.link : e \in {x \in DateEntries : x.published = d}}

\* C9: date fallback. A row stored from a record whose date string does not
\* parse holds in published_at a timestamp no earlier than the start of the
\* run that stored it.
C9_DateFallback ==
    \A i \in 1..Len(articles) :
        articles[i].url \in LinksDated("bad") =>
            /\ articles[i].published_at.kind = "iso"
            /\ articles[i].published_at.t >= hist.start[hist.rowBy[i]]

\* C14: downstream read contract. Every stored row has a non-empty title,
\* platform and keyword, and a published_at that is present.
C14_ReadContract ==
    \A i \in 1..Len(articles) :
        /\ articles[i].title # ""
        /\ articles[i].platform # ""
        /\ articles[i].keyword # ""
        /\ articles[i].published_at.kind # "empty"

(***************************************************************************)
(* Properties of the end-to-end runs (SpecE2E).                            *)
(***************************************************************************)
FeedOf(p) == (CHOOSE r \in cfg.world[p] : TRUE).entries
LinksOf(p) == {FeedOf(p)[i].link : i \in 1..Len(FeedOf(p))}

\* C10: end-to-end counting. From an empty store, a completed run over one
\* keyword and two succeeding sources returns the number of distinct urls in
\* the union of the two batches, and the ledger is the two ok entries with
\* the raw batch sizes.
C10_EndToEnd ==
    \A t \in Threads : pc[t] = "done" =>
        /\ summary[t] = ("k1" :> Cardinality(LinksOf("A") \cup LinksOf("B")))
        /\ fetch_logs = <<LogRow("A", "k1", "ok", Len(FeedOf("A"))),
                          LogRow("B", "k1", "ok", Len(FeedOf("B")))>>

\* The scenario of the specification: 3 distinct urls from A, 2 from B of
\* which one is shared, 4 returned.
C10_Witness ==
    /\ pc[1] = "done"
    /\ Len(FeedOf("A")) = 3 /\ Cardinality(LinksOf("A")) = 3
    /\ Len(FeedOf("B")) = 2 /\ Cardinality(LinksOf("B")) = 2
    /\ Cardinality(LinksOf("A") \cap LinksOf("B")) = 1
    /\ summary[1]["k1"] = 4
    /\ Len(articles) = 4

(***************************************************************************)
(* Properties of overlapping runs (SpecOverlap).                           *)
(***************************************************************************)
RECURSIVE SumTo(_, _)
SumTo(f, n) == IF n = 0 THEN 0 ELSE f[n] + SumTo(f, n - 1)

\* The rows thread t created while it processed keyword k.
RowsBy(t, k) ==
    {i \in 1..Len(articles) : hist.rowBy[i] = t /\ articles[i].keyword = k}
\* The sum of the counts a finished run returned.
RunCount(t) ==
    SumTo([i \in 1..NumKeywords |-> summary[t][cfg.keywords[i]]], NumKeywords)

\* C12: reentrancy. Under every interleaving of two runs, the count a run
\* holds for a keyword (in its summary once the keyword is finished, in
\* total and inserted while it is processed) is the number of rows this run
\* itself created while processing that keyword, and when both runs have
\* returned their counts sum to the number of rows added to the store.
C12_Reentrancy ==
    /\ \A t \in Threads :
          /\ \A k \in DOMAIN summary[t] :
                summary[t][k] = Cardinality(RowsBy(t, k))
          /\ Running(t) =>
                total[t] + inserted[t] = Cardinality(RowsBy(t, Keyword(t)))
    /\ (\A t \in Threads : pc[t] = "done") =>
          SumTo([t \in 1..Cardinality(Threads) |-> RunCount(t)],
                Cardinality(Threads)) = Len(articles)

\* Run 1 has returned 1 for k1, the row it created, while run 2 is still
\* inside the insert_many_articles of its first batch, in which it created
\* the row before that one.
C12_Witness ==
    /\ pc[1] = "done"
    /\ summary[1] = ("k1" :> 1) @@ ("k2" :> 0)
    /\ pc[2] = "insert" /\ ki[2] = 1 /\ inserted[2] = 1
    /\ hist.rowBy = <<2, 1>>

\* C13: first-write-wins. No step of any run changes or removes a row of
\* articles: every row, with its id, its fields and its fetched_at, is after
\* the step what it was before, whatever record is persisted for its url.
C13_FirstWriteWins ==
    [][/\ Len(articles') >= Len(articles)
       /\ \A i \in 1..Len(articles) : articles'[i] = articles[i]]_vars

\* A run has just persisted, for a url another run had stored under k1, a
\* record with another title, keyword and date; insert_article counted 0.
C13_Witness ==
    \E t \in Threads : \E i \in 1..Len(articles) :
        /\ pc[t] = "insert" /\ idx[t] = 2 /\ inserted[t] = 0
        /\ hist.rowBy[i] # t
        /\ arts[t][1].url = articles[i].url
        /\ arts[t][1].title # articles[i].title
        /\ arts[t][1].keyword # articles[i].keyword
        /\ arts[t][1].published_at # articles[i].published_at

(***************************************************************************)
(* Properties of the timing (SpecTimed).                                   *)
(***************************************************************************)
\* C15: rate-limiter spacing. Two consecutive requests to the same source
\* are at least Interval apart, whichever threads or runs issue them.
C15_Spacing == hist.close = {}

\* C16: throttling is per source. A run is never held in the delay that
\* follows its request to one source while its next request goes to another
\* source.
C16_PerSourceThrottle ==
    \A t \in Threads :
        ~(/\ pc[t] = "sleep"
          /\ pi[t] < NumPlatforms
          /\ cfg.platforms[pi[t] + 1] # Platform(t)
          /\ now < hist.asleep[t] + Interval)

(***************************************************************************)
(* Properties of records without a link (SpecLinkless).                    *)
(***************************************************************************)
\* What run t has counted as new so far: the finished keywords, the finished
\* batches of the current keyword, and the batch being persisted.
Counted(t) ==
    total[t] + inserted[t]
      + SumTo([i \in 1..NumKeywords |->
                  IF cfg.keywords[i] \in DOMAIN summary[t]
                  THEN summary[t][cfg.keywords[i]] ELSE 0], NumKeywords)

\* C24: link-less records share one identity. The store never holds more
\* than one row with the empty url, the runs together have counted as new
\* exactly the rows of the store, and once the row with the empty url
\* exists, the insert of a record without a link, whatever its title,
\* platform or keyword, changes neither the store nor the count.
C24_LinklessIdentity ==
    /\ [](/\ Cardinality(RowsWithUrl("")) <= 1
          /\ SumTo([t \in 1..Cardinality(Threads) |-> Counted(t)],
                   Cardinality(Threads)) = Len(articles))
    /\ [][\A t \in Threads :
            (/\ pc[t] = "insert" /\ idx[t] <= Len(arts[t])
             /\ idx'[t] = idx[t] + 1
             /\ arts[t][idx[t]].url = ""
             /\ HasUrl(articles, "")) =>
                /\ articles' = articles
                /\ inserted'[t] = inserted[t]]_vars

\* The second run has just persisted a record without a link, with another
\* title, platform and keyword than the row the first run stored for the
\* empty url; it was counted as 0.
C24_Witness ==
    \E i \in 1..Len(articles) :
        /\ articles[i].url = "" /\ hist.rowBy[i] = 1
        /\ pc[2] = "insert" /\ idx[2] = 2 /\ inserted[2] = 0
        /\ arts[2][1].url = ""
        /\ arts[2][1].title # articles[i].title
        /\ arts[2][1].platform # articles[i].platform
        /\ arts[2][1].keyword # articles[i].keyword

====
